---- MODULE Spec2Model ----
(***************************************************************************)
(* Model of rtp_voice_chat.py: the RTP packet codec (RTPPacket.pack and    *)
(* RTPPacket.unpack) and the duplex session (RTPVoiceChat) with its three  *)
(* threads: the controller (start_chat / stop_chat), the sender loop       *)
(* (send_audio) and the receiver loop (receive_audio).                     *)
(*                                                                         *)
(* Representation.  Python integers are unbounded, the model checker's are *)
(* 32-bit signed.  Every value that struct.pack writes as a 32-bit word    *)
(* (first_word, timestamp, ssrc) is therefore kept as a pair <<hi, lo>> of *)
(* 16-bit limbs with value hi * 2^16 + lo, where lo is in 0..65535 and hi  *)
(* is unbounded above: hi > 65535 is a value that no longer fits the 'I'   *)
(* format.  Byte strings are sequences of numbers in 0..255.               *)
(***************************************************************************)
EXTENDS Integers, Sequences, FiniteSets, TLC

(***************************************************************************)
(* Bounds of the model                                                     *)
(***************************************************************************)
MaxSends == 2     \* datagrams recorded on the wire
MaxRecv == 2      \* datagrams recorded as received
MaxStops == 2     \* calls of stop_chat
MaxRawLen == 14   \* longest raw byte string handed to unpack on its own

(***************************************************************************)
(* Program constants                                                       *)
(***************************************************************************)
CHUNK == 1024           \* self.CHUNK
HeaderLen == 12         \* if len(data) < 12
SeqModulus == 65536     \* % 65536
Limb == 2^16            \* radix of the two-limb representation of a word

\* Python's None
None == [none |-> TRUE]

(***************************************************************************)
(* Integer helpers                                                         *)
(***************************************************************************)
RECURSIVE BitOr(_, _)
BitOr(a, b) ==
    IF a = 0 THEN b
    ELSE IF b = 0 THEN a
    ELSE (IF a % 2 = 1 \/ b % 2 = 1 THEN 1 ELSE 0) + 2 * BitOr(a \div 2, b \div 2)

\* a word from its value when the value is below 2^31
Word(n) == <<n \div Limb, n % Limb>>

\* w + n on unbounded integers (n small), no wrap
WordAdd(w, n) == <<w[1] + ((w[2] + n) \div Limb), (w[2] + n) % Limb>>

\* k * c on unbounded integers (k below 2^31, c below 2^15), no wrap
WordTimes(k, c) ==
    <<(k \div Limb) * c + (((k % Limb) * c) \div Limb), ((k % Limb) * c) % Limb>>

\* w mod 2^32
WordMod32(w) == <<w[1] % Limb, w[2]>>

\* the 'I' format accepts 0 <= w <= 2^32 - 1
FitsI(w) == w[1] < Limb

PackILittleEndian(w) == <<w[2] % 256, w[2] \div 256, w[1] % 256, w[1] \div 256>>

\* struct.pack('!I', w): four bytes, most significant first
PackI(w) == <<w[1] \div 256, w[1] % 256, w[2] \div 256, w[2] % 256>>

\* struct.unpack('!I', b) for a four-byte string b
UnpackI(b) == <<b[1] * 256 + b[2], b[3] * 256 + b[4]>>

(***************************************************************************)
(* RTPPacket                                                               *)
(***************************************************************************)
RTPPacket(version, padding, extension, cc, marker, payload_type, sequence_number, timestamp, ssrc, payload) ==
    [version |-> version, padding |-> padding, extension |-> extension,
     cc |-> cc, marker |-> marker, payload_type |-> payload_type,
     sequence_number |-> sequence_number, timestamp |-> timestamp,
     ssrc |-> ssrc, payload |-> payload]

\* first_word of pack(): every term but sequence_number is shifted by at
\* least 16, so the low limb is sequence_number & 0xFFFF and the high limb
\* is the OR of the shifted fields with sequence_number >> 16.
FirstWord(p) ==
    <<BitOr(p.version * 2^14,
      BitOr(p.padding * 2^13,
      BitOr(p.extension * 2^12,
      BitOr(p.cc * 2^8,
      BitOr(p.marker * 2^7,
      BitOr(p.payload_type, p.sequence_number \div Limb)))))),
      p.sequence_number % Limb>>

\* struct.pack raises struct.error when an argument is out of range
PackRaises(p) ==
    ~(FitsI(FirstWord(p)) /\ FitsI(p.timestamp) /\ FitsI(p.ssrc))

Pack(p) ==
    PackI(FirstWord(p)) \o PackI(p.timestamp) \o PackI(p.ssrc) \o p.payload

UnpackShortLenient(data) == Len(data) <= HeaderLen

\* if len(data) < 12: return None
UnpackTooShort(data) == Len(data) < HeaderLen

UnpackPayloadTypeWide(hi) == hi % 256

\* payload_type = (first_word >> 16) & 0x7F
UnpackPayloadType(hi) == hi % 128

Unpack(data) ==
    IF UnpackTooShort(data) THEN None
    ELSE LET first_word == UnpackI(SubSeq(data, 1, 4))
             timestamp  == UnpackI(SubSeq(data, 5, 8))
             ssrc       == UnpackI(SubSeq(data, 9, 12))
             hi         == first_word[1]
         IN  RTPPacket((hi \div 2^14) % 4,
                       (hi \div 2^13) % 2,
                       (hi \div 2^12) % 2,
                       (hi \div 2^8) % 16,
                       (hi \div 2^7) % 2,
                       UnpackPayloadType(hi),
                       first_word[2],
                       timestamp, ssrc,
                       SubSeq(data, HeaderLen + 1, Len(data)))

(***************************************************************************)
(* State                                                                   *)
(***************************************************************************)
VARIABLES
    \* RTPVoiceChat attributes
    sequence_number, timestamp, ssrc, running,
    input_stream,      \* "unset" (no attribute yet), "open", "closed"
    output_stream,     \* "unset", "open", "closed"
    audio,             \* "ready", "terminated"
    socket,            \* "unbound" (bind raised), "bound", "closed"
    \* controller thread: position in main / start_chat / stop_chat
    cpc, stops,
    \* send_audio thread: position, local audio_data, why the loop ended
    spc, audio_data, sexit,
    \* receive_audio thread: position, local data, why the loop ended
    rpc, data, rexit,
    \* observations of the collaborators
    wire,              \* datagrams handed to socket.sendto, in order
    base,              \* datagrams sent before the first one in wire
    rcvd,              \* datagrams returned by socket.recvfrom, in order
    played,            \* payloads passed to output_stream.write, in call order
    closeCalls,        \* stop/close/terminate calls issued, per handle
    misuse,            \* handles a loop operated on after their close
    afterStop,         \* sendto and write calls since stop_chat first cleared running
    s0, ssrc0,         \* the values drawn by random.randint in __init__
    \* codec on its own: RTPPacket(...).pack() and RTPPacket.unpack(b)
    c_stage, c_pkt, c_data, c_out

sessionVars ==
    <<sequence_number, timestamp, ssrc, running, input_stream, output_stream,
      audio, socket, cpc, stops, spc, audio_data, sexit, rpc, data, rexit,
      wire, base, rcvd, played, closeCalls, misuse, afterStop, s0, ssrc0>>

codecVars == <<c_stage, c_pkt, c_data, c_out>>

vars == <<sessionVars, codecVars>>

(***************************************************************************)
(* Inputs                                                                  *)
(***************************************************************************)
\* the two draws of __init__, random.randint(0, 65535) and
\* random.randint(0, 0xFFFFFFFF): a sequence number in the middle and the last
\* one before the wrap, each with an ssrc
RandomDraws == {<<7, <<4660, 22136>>>>, <<65535, <<65535, 65535>>>>}

\* what the n-th successful input_stream.read returns: the capture device
\* delivers a stream of pairwise distinct chunks (CHUNK samples each,
\* shortened here to two bytes)
CaptureChunk(n) == <<n % 256, 17>>

Fill(n, b) == [i \in 1..n |-> b]

\* datagrams from the network: one too short, one of exactly the header
\* (version 3, payload type 127, sequence number 65535), and one well formed
\* with a lower sequence number than the previous
ShortDatagram == Fill(HeaderLen - 1, 255)
HeaderOnlyDatagram == Fill(HeaderLen, 255)
VoiceDatagram ==
    Pack(RTPPacket(2, 0, 0, 0, 0, 0, 5, <<0, 2048>>, <<1, 2>>, <<9, 8>>))
Datagrams == {ShortDatagram, HeaderOnlyDatagram, VoiceDatagram}

\* header fields within their bit widths, payloads, raw byte strings
Versions == 0..3
Bits == {0, 1}
CsrcCounts == {0, 9, 15}
PayloadTypes == {0, 85, 127}
SequenceNumbers == {0, 258, 65535}
Words32 == {<<0, 0>>, <<258, 772>>, <<65535, 65535>>}
Payloads == {<<>>, <<0>>, <<255, 1>>}
RawInputs == {Fill(n, b) : n \in 0..MaxRawLen, b \in {0, 129, 255}}

(***************************************************************************)
(* Construction: RTPVoiceChat.__init__                                     *)
(***************************************************************************)
CodecIdle ==
    /\ c_stage = "idle"
    /\ c_pkt = None
    /\ c_data = <<>>
    /\ c_out = None

Constructed(seq, src, bound) ==
    /\ sequence_number = seq
    /\ timestamp = Word(0)
    /\ ssrc = src
    /\ running = FALSE
    /\ input_stream = "unset"
    /\ output_stream = "unset"
    /\ audio = "ready"
    /\ socket = IF bound THEN "bound" ELSE "unbound"
    /\ cpc = IF bound THEN "constructed" ELSE "bind_failed"
    /\ stops = 0
    /\ spc = "unstarted"
    /\ audio_data = <<>>
    /\ sexit = "none"
    /\ rpc = "unstarted"
    /\ data = <<>>
    /\ rexit = "none"
    /\ wire = <<>>
    /\ base = 0
    /\ rcvd = <<>>
    /\ played = <<>>
    /\ closeCalls = [h \in {"input_stream", "output_stream", "audio", "socket"} |-> 0]
    /\ misuse = {}
    /\ afterStop = [sends |-> 0, writes |-> 0]
    /\ s0 = seq
    /\ ssrc0 = src

Init ==
    /\ \E draw \in RandomDraws, bound \in BOOLEAN :
           Constructed(draw[1], draw[2], bound)
    /\ CodecIdle

(***************************************************************************)
(* Controller: start_chat, start_stream, stop_chat                         *)
(***************************************************************************)
\* lines 171-172: running = True, then the two audio.open calls, either of
\* which may raise; nothing else runs yet, so this is one step
StartChat ==
    /\ cpc = "constructed"
    /\ running' = TRUE
    /\ \/ /\ input_stream' = "open"
          /\ output_stream' = "open"
          /\ cpc' = "start_send"
       \/ /\ cpc' = "start_failed"
          /\ UNCHANGED <<input_stream, output_stream>>
       \/ /\ input_stream' = "open"
          /\ cpc' = "start_failed"
          /\ UNCHANGED output_stream
    /\ UNCHANGED <<sequence_number, timestamp, ssrc, audio, socket, stops,
                   spc, audio_data, sexit, rpc, data, rexit, wire, base, rcvd,
                   played, closeCalls, misuse, s0, ssrc0, afterStop, codecVars>>

StartSendThread ==
    /\ cpc = "start_send"
    /\ spc' = "check"
    /\ cpc' = "start_recv"
    /\ UNCHANGED <<sequence_number, timestamp, ssrc, running, input_stream,
                   output_stream, audio, socket, stops, audio_data, sexit,
                   rpc, data, rexit, wire, base, rcvd, played, closeCalls,
                   misuse, s0, ssrc0, afterStop, codecVars>>

StartReceiveThread ==
    /\ cpc = "start_recv"
    /\ rpc' = "check"
    /\ cpc' = "wait"
    /\ UNCHANGED <<sequence_number, timestamp, ssrc, running, input_stream,
                   output_stream, audio, socket, stops, spc, audio_data,
                   sexit, data, rexit, wire, base, rcvd, played, closeCalls,
                   misuse, s0, ssrc0, afterStop, codecVars>>

\* the input() loop reads 'q' and start_chat calls stop_chat:
\* self.running = False
StopFlag ==
    /\ cpc = "wait"
    /\ running' = FALSE
    /\ cpc' = "stop_input"
    /\ UNCHANGED <<sequence_number, timestamp, ssrc, input_stream,
                   output_stream, audio, socket, stops, spc, audio_data,
                   sexit, rpc, data, rexit, wire, base, rcvd, played,
                   closeCalls, misuse, s0, ssrc0, afterStop, codecVars>>

Called(h) == [closeCalls EXCEPT ![h] = @ + 1]

\* if hasattr(self, 'input_stream'): stop_stream(); close()
StopInput ==
    /\ cpc = "stop_input"
    /\ IF input_stream = "unset"
       THEN UNCHANGED <<input_stream, closeCalls>>
       ELSE /\ closeCalls' = Called("input_stream")
            /\ input_stream' = "closed"
    /\ cpc' = "stop_output"
    /\ UNCHANGED <<sequence_number, timestamp, ssrc, running, output_stream,
                   audio, socket, stops, spc, audio_data, sexit, rpc, data,
                   rexit, wire, base, rcvd, played, misuse, s0, ssrc0,
                   afterStop, codecVars>>

\* if hasattr(self, 'output_stream'): stop_stream(); close()
StopOutput ==
    /\ cpc = "stop_output"
    /\ IF output_stream = "unset"
       THEN UNCHANGED <<output_stream, closeCalls>>
       ELSE /\ closeCalls' = Called("output_stream")
            /\ output_stream' = "closed"
    /\ cpc' = "stop_audio"
    /\ UNCHANGED <<sequence_number, timestamp, ssrc, running, input_stream,
                   audio, socket, stops, spc, audio_data, sexit, rpc, data,
                   rexit, wire, base, rcvd, played, misuse, s0, ssrc0,
                   afterStop, codecVars>>

\* self.audio.terminate(); self.socket.close(): no loop reads audio, so the
\* two calls are one step
StopAudioSocket ==
    /\ cpc = "stop_audio"
    /\ closeCalls' = [closeCalls EXCEPT !["audio"] = @ + 1, !["socket"] = @ + 1]
    /\ audio' = "terminated"
    /\ socket' = "closed"
    /\ cpc' = "stopped"
    /\ stops' = stops + 1
    /\ UNCHANGED <<sequence_number, timestamp, ssrc, running, input_stream,
                   output_stream, spc, audio_data, sexit, rpc, data, rexit,
                   wire, base, rcvd, played, misuse, s0, ssrc0, afterStop,
                   codecVars>>

\* stop_chat called again on the stopped session (lines 195-207 once more).
\* running is False and every handle is closed already, so no loop can tell
\* the steps of the call apart and the call is one step.  The calls on the
\* closed handles are taken to return.
StopChatAgain ==
    /\ cpc = "stopped"
    /\ stops < MaxStops
    /\ running' = FALSE
    /\ closeCalls' = [h \in DOMAIN closeCalls |-> closeCalls[h] + 1]
    /\ stops' = stops + 1
    /\ UNCHANGED <<sequence_number, timestamp, ssrc, input_stream,
                   output_stream, audio, socket, cpc, spc, audio_data, sexit,
                   rpc, data, rexit, wire, base, rcvd, played, misuse, s0,
                   ssrc0, afterStop, codecVars>>

\* start_chat called again on the session that stop_chat has stopped: line 171
\* sets running = True, then start_stream raises, because the PyAudio instance
\* has been terminated and opens no stream
RestartChat ==
    /\ cpc = "stopped"
    /\ running' = TRUE
    /\ cpc' = "restart_failed"
    /\ UNCHANGED <<sequence_number, timestamp, ssrc, input_stream,
                   output_stream, audio, socket, stops, spc, audio_data,
                   sexit, rpc, data, rexit, wire, base, rcvd, played,
                   closeCalls, misuse, s0, ssrc0, afterStop, codecVars>>

Controller ==
    \/ StartChat
    \/ StartSendThread
    \/ StartReceiveThread
    \/ StopFlag
    \/ StopInput
    \/ StopOutput
    \/ StopAudioSocket
    \/ StopChatAgain
    \/ RestartChat

(***************************************************************************)
(* Sender loop: send_audio                                                 *)
(***************************************************************************)
senderFrame ==
    <<running, input_stream, output_stream, audio, socket, cpc, stops, rpc,
      data, rexit, base, rcvd, played, closeCalls, s0, ssrc0, codecVars>>

SenderPacketPcma(seq, ts, src, payload) ==
    RTPPacket(2, 0, 0, 0, 0, 8, seq, ts, src, payload)

SenderPacketDefaultSsrc(seq, ts, src, payload) ==
    RTPPacket(2, 0, 0, 0, 0, 0, seq, ts, Word(0), payload)

\* RTPPacket(payload_type=0, sequence_number=..., timestamp=..., ssrc=...,
\* payload=audio_data), the other fields at their defaults
SenderPacket(seq, ts, src, payload) ==
    RTPPacket(2, 0, 0, 0, 0, 0, seq, ts, src, payload)

NextSequenceNumberShortModulus(seq) == (seq + 1) % (SeqModulus - 1)

\* self.sequence_number = (self.sequence_number + 1) % 65536
NextSequenceNumber(seq) == (seq + 1) % SeqModulus

NextTimestampInBytes(ts) == WordAdd(ts, 2 * CHUNK)

\* self.timestamp += self.CHUNK
NextTimestamp(ts) == WordAdd(ts, CHUNK)

\* stop_chat has cleared running at least once
StopSeen == cpc \in {"stop_input", "stop_output", "stop_audio", "stopped", "restart_failed"}

SequenceNumberConsumedOnError(seq) == NextSequenceNumber(seq)

\* the except clause assigns nothing: sequence_number after it
SequenceNumberAfterError(seq) == seq

\* the except clause: print and break
SenderBreak(cause, handle, state) ==
    /\ spc' = "exited"
    /\ sexit' = cause
    /\ sequence_number' = SequenceNumberAfterError(sequence_number)
    /\ misuse' = IF state = "closed" THEN misuse \cup {handle} ELSE misuse

\* while self.running:
SenderCheck ==
    /\ spc = "check"
    /\ IF running
       THEN spc' = "read" /\ UNCHANGED sexit
       ELSE spc' = "exited" /\ sexit' = "stopped"
    /\ UNCHANGED <<sequence_number, timestamp, ssrc, audio_data, wire, misuse,
                   afterStop, senderFrame>>

\* audio_data = self.input_stream.read(...): returns a chunk or raises; on a
\* closed stream it raises.  No chunk is produced once wire is full.
SenderRead ==
    /\ spc = "read"
    /\ \/ /\ input_stream = "open"
          /\ Len(wire) < MaxSends
          /\ audio_data' = CaptureChunk(base + Len(wire) + 1)
          /\ spc' = "send"
          /\ UNCHANGED <<sexit, misuse, sequence_number>>
       \/ /\ SenderBreak("capture_error", "input_stream", input_stream)
          /\ UNCHANGED audio_data
    /\ UNCHANGED <<timestamp, ssrc, wire, afterStop, senderFrame>>

\* rtp_packet = RTPPacket(...); packet_data = rtp_packet.pack();
\* self.socket.sendto(packet_data, ...): pack raises struct.error on a value
\* that does not fit, sendto raises on an I/O error or on a closed socket.
\* audio_data is not read again before the next read assigns it.
SenderSend ==
    /\ spc = "send"
    /\ LET rtp_packet == SenderPacket(sequence_number, timestamp, ssrc, audio_data)
       IN  IF PackRaises(rtp_packet)
           THEN /\ SenderBreak("pack_error", "none", "none")
                /\ UNCHANGED <<wire, afterStop>>
           ELSE \/ /\ socket = "bound"
                   /\ wire' = Append(wire, Pack(rtp_packet))
                   /\ afterStop' = IF StopSeen
                                   THEN [afterStop EXCEPT !.sends = @ + 1]
                                   ELSE afterStop
                   /\ spc' = "update"
                   /\ UNCHANGED <<sexit, misuse, sequence_number>>
                \/ /\ SenderBreak("send_error", "socket", socket)
                   /\ UNCHANGED <<wire, afterStop>>
    /\ audio_data' = <<>>
    /\ UNCHANGED <<timestamp, ssrc, senderFrame>>

\* lines 135-138: advance the counters, sleep
SenderUpdate ==
    /\ spc = "update"
    /\ sequence_number' = NextSequenceNumber(sequence_number)
    /\ timestamp' = NextTimestamp(timestamp)
    /\ spc' = "check"
    /\ UNCHANGED <<ssrc, audio_data, sexit, wire, misuse, afterStop, senderFrame>>

Sender == SenderCheck \/ SenderRead \/ SenderSend \/ SenderUpdate

(***************************************************************************)
(* Receiver loop: receive_audio                                            *)
(***************************************************************************)
receiverFrame ==
    <<timestamp, ssrc, running, input_stream, output_stream,
      audio, socket, cpc, stops, spc, audio_data, sexit, wire, base,
      closeCalls, s0, ssrc0, codecVars>>

\* the except clause: print and break
ReceiverBreak(cause, handle, state) ==
    /\ rpc' = "exited"
    /\ rexit' = cause
    /\ misuse' = IF state = "closed" THEN misuse \cup {handle} ELSE misuse

ReceiverCheckIgnoresFlag == TRUE

ReceiverStopsWithSender == running /\ spc # "exited"

\* while self.running:
ReceiverLoopCondition == running

ReceiverCheck ==
    /\ rpc = "check"
    /\ IF ReceiverLoopCondition
       THEN rpc' = "recv" /\ UNCHANGED rexit
       ELSE rpc' = "exited" /\ rexit' = "stopped"
    /\ UNCHANGED <<data, rcvd, played, misuse, afterStop, sequence_number,
                   receiverFrame>>

\* data, addr = self.socket.recvfrom(8192): returns a datagram or raises; on
\* a closed socket it raises.  rcvd records the first MaxRecv datagrams; once
\* it is full only datagrams that unpack rejects keep arriving.
ReceiverRecv ==
    /\ rpc = "recv"
    /\ \/ /\ socket = "bound"
          /\ \E d \in Datagrams :
                /\ data' = d
                /\ IF Len(rcvd) < MaxRecv
                   THEN rcvd' = Append(rcvd, d)
                   ELSE UnpackTooShort(d) /\ UNCHANGED rcvd
          /\ rpc' = "play"
          /\ UNCHANGED <<rexit, misuse>>
       \/ /\ ReceiverBreak("recv_error", "socket", socket)
          /\ UNCHANGED <<data, rcvd>>
    /\ UNCHANGED <<played, afterStop, sequence_number, receiverFrame>>

ReceiverStopOnNone(cause) == ReceiverBreak(cause, "none", "none")

\* rtp_packet is None: nothing is written, the loop goes round
ReceiverDrop(cause) ==
    /\ rpc' = "check"
    /\ UNCHANGED <<rexit, misuse>>

ReceiverAdoptsPeerSequence(d) ==
    IF UnpackTooShort(d) THEN sequence_number ELSE Unpack(d).sequence_number

\* receive_audio assigns no attribute of the session: sequence_number after
\* the step that unpacks d
ReceiverSequenceNumber(d) == sequence_number

ReceiverPayloadWithHeaderByte(d) == SubSeq(d, HeaderLen, Len(d))

\* rtp_packet.payload of the packet unpacked from data
ReceiverPayload(d) == Unpack(d).payload

\* rtp_packet = RTPPacket.unpack(data); if rtp_packet:
\* self.output_stream.write(rtp_packet.payload): write returns or raises; on
\* a closed stream it raises
ReceiverPlay ==
    /\ rpc = "play"
    /\ data' = <<>>
    /\ sequence_number' = ReceiverSequenceNumber(data)
    /\ IF Unpack(data) = None
       THEN /\ ReceiverDrop("decode_error")
            /\ UNCHANGED <<played, afterStop>>
       ELSE /\ played' = Append(played, ReceiverPayload(data))
            /\ afterStop' = IF StopSeen
                            THEN [afterStop EXCEPT !.writes = @ + 1]
                            ELSE afterStop
            /\ \/ /\ output_stream = "open"
                  /\ rpc' = "check"
                  /\ UNCHANGED <<rexit, misuse>>
               \/ ReceiverBreak("playback_error", "output_stream", output_stream)
    /\ UNCHANGED <<rcvd, receiverFrame>>

Receiver == ReceiverCheck \/ ReceiverRecv \/ ReceiverPlay

(***************************************************************************)
(* The session                                                             *)
(***************************************************************************)
Next == Controller \/ Sender \/ Receiver

Spec == Init /\ [][Next]_vars

\* the loops are scheduled fairly and their blocking calls return
FairSpec == Spec /\ WF_vars(Sender) /\ WF_vars(Receiver)

(***************************************************************************)
(* A session that has been sending for a long time: the state reached from *)
(* Init by start_chat and LateBase complete iterations of the sender loop  *)
(* while no datagram has arrived yet.  One more datagram fits before the   *)
(* timestamp reaches 2^32.                                                 *)
(***************************************************************************)
LateBase == 2^22 - 1

InitLate ==
    /\ \E draw \in RandomDraws :
          /\ sequence_number = (draw[1] + LateBase) % SeqModulus
          /\ s0 = draw[1]
          /\ ssrc = draw[2]
          /\ ssrc0 = draw[2]
    /\ timestamp = WordTimes(LateBase, CHUNK)
    /\ base = LateBase
    /\ running = TRUE
    /\ input_stream = "open"
    /\ output_stream = "open"
    /\ audio = "ready"
    /\ socket = "bound"
    /\ cpc = "wait"
    /\ stops = 0
    /\ spc = "check"
    /\ audio_data = <<>>
    /\ sexit = "none"
    /\ rpc = "check"
    /\ data = <<>>
    /\ rexit = "none"
    /\ wire = <<>>
    /\ rcvd = <<>>
    /\ played = <<>>
    /\ closeCalls = [h \in {"input_stream", "output_stream", "audio", "socket"} |-> 0]
    /\ misuse = {}
    /\ afterStop = [sends |-> 0, writes |-> 0]
    /\ CodecIdle

SpecLong == (Init \/ InitLate) /\ [][Next]_vars

(***************************************************************************)
(* The codec on its own: pack() of a packet with fields within their bit   *)
(* widths followed by unpack() of the result, and unpack() of raw bytes    *)
(***************************************************************************)
ValidPackets ==
    {RTPPacket(v, p, x, cc, m, pt, seq, ts, src, payload) :
        v \in Versions, p \in Bits, x \in Bits, cc \in CsrcCounts, m \in Bits,
        pt \in PayloadTypes, seq \in SequenceNumbers, ts \in Words32,
        src \in Words32, payload \in Payloads}

CodecInit ==
    /\ Constructed(0, Word(0), FALSE)
    /\ c_out = None
    /\ \/ /\ c_stage = "fields"
          /\ c_pkt \in ValidPackets
          /\ c_data = <<>>
       \/ /\ c_stage = "bytes"
          /\ c_pkt = None
          /\ c_data \in RawInputs

CodecPack ==
    /\ c_stage = "fields"
    /\ IF PackRaises(c_pkt)
       THEN c_stage' = "raised" /\ UNCHANGED c_data
       ELSE c_stage' = "bytes" /\ c_data' = Pack(c_pkt)
    /\ UNCHANGED <<c_pkt, c_out, sessionVars>>

CodecUnpack ==
    /\ c_stage = "bytes"
    /\ c_out' = Unpack(c_data)
    /\ c_stage' = "decoded"
    /\ UNCHANGED <<c_pkt, c_data, sessionVars>>

CodecNext == CodecPack \/ CodecUnpack

CodecSpec == CodecInit /\ [][CodecNext]_vars

(***************************************************************************)
(* Properties                                                              *)
(***************************************************************************)

\* C1: pack() followed by unpack() gives back all ten fields of a packet
\* whose header fields are within their bit widths, and pack() does not raise
RoundTrip ==
    /\ c_stage # "raised"
    /\ (c_stage = "decoded" /\ c_pkt # None) => c_out = c_pkt

RoundTripWitness ==
    /\ c_stage = "decoded"
    /\ c_pkt # None
    /\ c_pkt.version = 3 /\ c_pkt.marker = 1 /\ c_pkt.payload_type = 127
    /\ c_pkt.sequence_number = 65535 /\ c_pkt.payload = <<255, 1>>
    /\ c_out = c_pkt

\* C2: unpack() returns None exactly for the inputs shorter than 12 bytes,
\* whatever the bits are, and the payload of a 12-byte input is empty
ShortInputRejection ==
    c_stage = "decoded" =>
        /\ (Len(c_data) < 12) <=> (c_out = None)
        /\ Len(c_data) = 12 => (c_out # None /\ c_out.payload = <<>>)

ShortInputRejectionWitness ==
    /\ c_stage = "decoded"
    /\ c_pkt = None
    /\ Len(c_data) = 12
    /\ c_out # None
    /\ c_out.version = 3 /\ c_out.payload_type = 127 /\ c_out.payload = <<>>

\* the i-th recorded datagram is datagram number base + i - 1 of the session
Sent(i) == Unpack(wire[i])

\* C3: the k-th datagram on the wire carries sequence number
\* (s0 + k) mod 65536, for k = 0, 1, 2, ...
SequenceOnWire ==
    \A i \in 1..Len(wire) :
        Sent(i).sequence_number = (s0 + base + i - 1) % 65536

SequenceOnWireWitness ==
    /\ s0 = 65535
    /\ Len(wire) >= 2
    /\ Sent(1).sequence_number = 65535
    /\ Sent(2).sequence_number = 0

\* C4: the k-th datagram on the wire carries timestamp (k * CHUNK) mod 2^32
TimestampOnWire ==
    \A i \in 1..Len(wire) :
        Sent(i).timestamp = WordMod32(WordTimes(base + i - 1, CHUNK))

TimestampOnWireWitness ==
    /\ base = 0
    /\ Len(wire) >= 2
    /\ Sent(1).timestamp = <<0, 0>>
    /\ Sent(2).timestamp = <<0, 1024>>

\* C5: the session's ssrc is the value drawn at construction in every state,
\* and every datagram on the wire carries it
SsrcStable ==
    /\ ssrc = ssrc0
    /\ \A i \in 1..Len(wire) : Sent(i).ssrc = ssrc0

SsrcStableWitness ==
    /\ Len(wire) >= 2
    /\ Len(played) >= 1
    /\ cpc = "stopped"
    /\ Sent(1).ssrc = ssrc0 /\ Sent(2).ssrc = ssrc0

\* C6: the receiver step that handles a datagram shorter than 12 bytes writes
\* nothing, does not end the loop and returns to the loop test, from where the
\* loop goes on to recvfrom while running is true
DropsMalformed ==
    [][/\ (rpc = "play" /\ Len(data) < 12 /\ rpc' # "play") =>
             (rpc' = "check" /\ played' = played /\ rexit' = "none")
       /\ (rpc = "check" /\ running /\ rpc' # "check") => rpc' = "recv"]_vars

DropsMalformedWitness ==
    /\ Len(rcvd) >= 2
    /\ rcvd[1] = ShortDatagram
    /\ rcvd[2] = VoiceDatagram
    /\ played = <<<<9, 8>>>>
    /\ rpc = "check"
    /\ rexit = "none"

RECURSIVE PayloadsOf(_)
PayloadsOf(ds) ==
    IF ds = <<>> THEN <<>>
    ELSE IF Len(Head(ds)) >= 12
         THEN <<SubSeq(Head(ds), 13, Len(Head(ds)))>> \o PayloadsOf(Tail(ds))
         ELSE PayloadsOf(Tail(ds))

\* the datagrams received so far, less the one recvfrom has just returned
\* and the loop has not yet unpacked
Processed ==
    IF rpc = "play" /\ Len(data) >= 12 THEN SubSeq(rcvd, 1, Len(rcvd) - 1) ELSE rcvd

\* C7: the payloads passed to output_stream.write are, in order and one
\* each, the payloads of the received datagrams of 12 bytes or more
ReceiptOrderPlayback == played = PayloadsOf(Processed)

ReceiptOrderPlaybackWitness ==
    /\ rcvd = <<VoiceDatagram, HeaderOnlyDatagram>>
    /\ played = <<<<9, 8>>, <<>>>>

\* C8: a call of stop_chat on a session that stop_chat has already stopped
\* changes no attribute of the session and issues no stop, close or terminate
\* (a step of that call is a step that adds to stops)
StopIdempotent ==
    [][(stops >= 1 /\ stops' # stops) =>
          UNCHANGED <<closeCalls, running, input_stream, output_stream, audio,
                      socket, sequence_number, timestamp, ssrc>>]_vars

\* stop_chat has set running to False
StopRequested == ~running /\ cpc \notin {"constructed", "bind_failed"}

LoopsExited == spc = "exited" /\ rpc = "exited"

\* C9: once stop_chat has set running to False, both loops eventually exit
StopLiveness == StopRequested ~> LoopsExited

StopLivenessWitness ==
    /\ StopRequested
    /\ sexit = "stopped"
    /\ rexit = "stopped"
    /\ Len(wire) >= 1

IOErrors == {"capture_error", "send_error", "recv_error", "playback_error"}

\* C10: a step in which one loop ends on an I/O error leaves running and the
\* other loop as they are, and a loop ends only on its own error or on
\* seeing running False
ErrorIsolation ==
    /\ [][/\ (sexit = "none" /\ sexit' = "stopped") => ~running
          /\ (rexit = "none" /\ rexit' = "stopped") => ~running]_vars
    /\ [][/\ (sexit = "none" /\ sexit' \in IOErrors) =>
                UNCHANGED <<running, rpc, rexit, data>>
          /\ (rexit = "none" /\ rexit' \in IOErrors) =>
                UNCHANGED <<running, spc, sexit, audio_data>>]_vars

ErrorIsolationWitness ==
    /\ sexit = "capture_error"
    /\ running
    /\ cpc = "wait"
    /\ rpc = "check"
    /\ Len(played) >= 2

\* C11: when the bind in __init__ or an audio open in start_chat has failed,
\* no loop has been started, nothing has been sent and running is False
StartupFailureNeverStarts ==
    cpc \in {"bind_failed", "start_failed"} =>
        /\ spc = "unstarted"
        /\ rpc = "unstarted"
        /\ wire = <<>>
        /\ ~running

\* C12: pack() returns 12 + len(payload) bytes: word0 big-endian with the
\* fields at bits 30, 29, 28, 24, 23, 16 and 0, then timestamp, then ssrc,
\* then the payload unchanged
WireLayout ==
    (c_pkt # None /\ c_stage \in {"bytes", "decoded"}) =>
        /\ Len(c_data) = 12 + Len(c_pkt.payload)
        /\ \A i \in 1..12 : c_data[i] \in 0..255
        /\ c_data[1] * 256 + c_data[2] =
              c_pkt.version * 2^14 + c_pkt.padding * 2^13
              + c_pkt.extension * 2^12 + c_pkt.cc * 2^8
              + c_pkt.marker * 2^7 + c_pkt.payload_type
        /\ c_data[3] * 256 + c_data[4] = c_pkt.sequence_number
        /\ c_data[5] * 256 + c_data[6] = c_pkt.timestamp[1]
        /\ c_data[7] * 256 + c_data[8] = c_pkt.timestamp[2]
        /\ c_data[9] * 256 + c_data[10] = c_pkt.ssrc[1]
        /\ c_data[11] * 256 + c_data[12] = c_pkt.ssrc[2]
        /\ SubSeq(c_data, 13, Len(c_data)) = c_pkt.payload

WireLayoutWitness ==
    /\ c_stage = "bytes"
    /\ c_pkt = RTPPacket(2, 1, 0, 9, 1, 85, 258, <<258, 772>>, <<65535, 65535>>, <<255, 1>>)
    /\ c_data = <<169, 213, 1, 2, 1, 2, 3, 4, 255, 255, 255, 255, 255, 1>>

\* C13: in every state sequence_number is in 0..65535 and timestamp is in
\* 0..2^32 - 1
CounterRange ==
    /\ sequence_number \in 0..65535
    /\ timestamp[1] \in 0..65535
    /\ timestamp[2] \in 0..65535

\* C14: the sender loop ends only on seeing running False or on a failed
\* capture read or socket send
SenderExitCause ==
    spc = "exited" => sexit \in {"stopped", "capture_error", "send_error"}

\* C15: once stop_chat has cleared running it stays False, and a loop that
\* has ended stays ended
OneWayLifecycle ==
    [][/\ (StopSeen /\ ~running) => ~running'
       /\ spc = "exited" => spc' = "exited"
       /\ rpc = "exited" => rpc' = "exited"]_vars

\* C16: after stop_chat has cleared running the sender sends at most one more
\* datagram and the receiver makes at most one more playback write
AtMostOneExtra == afterStop.sends <= 1 /\ afterStop.writes <= 1

AtMostOneExtraWitness ==
    /\ afterStop.sends = 1
    /\ afterStop.writes = 1
    /\ sexit = "stopped"
    /\ rexit = "stopped"

\* C17: every datagram on the wire decodes to version 2, padding 0,
\* extension 0, cc 0, marker 0, payload type 0, and the n-th datagram carries
\* the chunk of the n-th capture read
FixedHeaderOnWire ==
    \A i \in 1..Len(wire) :
        /\ Sent(i).version = 2
        /\ Sent(i).padding = 0
        /\ Sent(i).extension = 0
        /\ Sent(i).cc = 0
        /\ Sent(i).marker = 0
        /\ Sent(i).payload_type = 0
        /\ Sent(i).payload = CaptureChunk(base + i)

FixedHeaderOnWireWitness ==
    /\ Len(wire) >= 2
    /\ Sent(1).payload = <<1, 17>>
    /\ Sent(2).payload = <<2, 17>>
    /\ Sent(2).version = 2
    /\ Sent(2).payload_type = 0

\* C18: a step of the receiver loop or of the controller leaves
\* sequence_number, timestamp and ssrc as they are; sequence_number and
\* timestamp change only in the sender's update step
ExclusiveCounters ==
    [][/\ (rpc' # rpc \/ cpc' # cpc \/ stops' # stops) =>
             UNCHANGED <<sequence_number, timestamp, ssrc>>
       /\ (sequence_number' # sequence_number \/ timestamp' # timestamp) =>
             (spc = "update" /\ spc' = "check")]_vars

ExclusiveCountersWitness ==
    /\ cpc = "stopped"
    /\ played = <<<<9, 8>>>>
    /\ rexit = "stopped"
    /\ Len(wire) = 1
    /\ sequence_number = (s0 + 1) % 65536
    /\ timestamp = <<0, 1024>>

\* C19: no loop operates on a stream or on the socket after stop_chat has
\* closed it
NoUseAfterClose == misuse = {}

\* C20 as stated: in every state sequence_number is (s0 + datagrams sent)
\* mod 65536
CountersMatchSent ==
    sequence_number = (s0 + base + Len(wire)) % 65536

\* C20: an iteration whose read, pack or send fails leaves the counters as
\* they are, so outside the window between a successful sendto and the update
\* that follows it, sequence_number is (s0 + datagrams sent) mod 65536 and
\* timestamp is datagrams sent times CHUNK
CountersAdvanceOnSend ==
    spc # "update" =>
        /\ sequence_number = (s0 + base + Len(wire)) % 65536
        /\ timestamp = WordTimes(base + Len(wire), CHUNK)

CountersAdvanceOnSendWitness ==
    /\ sexit = "send_error"
    /\ Len(wire) = 1
    /\ sequence_number = (s0 + 1) % 65536
    /\ timestamp = <<0, 1024>>

====
